---- MODULE Spec2Model ----
(***************************************************************************)
(* A model of the matrixio layer (src/src/matrixio/matrixio.c): filename   *)
(* normalisation, the collective group-creation protocol, and the strided  *)
(* hyperslab write/read paths on top of the HDF5 calls they issue.         *)
(***************************************************************************)
EXTENDS Integers, Sequences, FiniteSets, TLC

(***************************************************************************)
(* Bounds of the model.                                                    *)
(***************************************************************************)
MaxLen == 6        \* longest filename given to add_fname_suffix
MaxApply == 2      \* how often a filename is normalised in a row
MaxProcs == 3      \* largest number K of worker processes
MaxCalls == 2      \* longest sequence of matrixio_create_sub calls
MaxElems == 4      \* largest number of elements of a dataset
MaxWrites == 1     \* most write calls with arbitrary arguments on a dataset
MaxCover == 3      \* most stride-1 in-range write calls covering a dataset
MaxFreq == 2       \* largest freq_num given to get_sdos
MaxBands == 3      \* largest n_bands given to get_sdos and BtH_overlap
MaxBlock == 2      \* largest block size Hblock.alloc_p
MaxReaders == 2    \* most read calls the workers of a run make on a dataset

VARIABLES
    fnames,     \* filename chain: <<p, add_fname_suffix(p), ...>>
    nprocs,     \* K, the number of worker processes of the run
    calls,      \* the create_sub calls every worker makes, in order
    pc,         \* position of each worker inside matrixio_create_sub
    callno,     \* number of create_sub calls each worker has returned from
    sub_id,     \* the local variable sub_id of each worker
    arrived,    \* number of MPI_Barrier calls each worker has entered
    group,      \* the group nodes of the container file
    creators,   \* <<worker, name>> pairs that issued H5Gcreate
    openers,    \* <<worker, name>> pairs that issued H5Gopen
    ret,        \* handles returned to each worker's caller, in call order
    dset,       \* the stored dataset: its extents and its elements
    phase,      \* "write": container created; "read": reopened read-only
    nwrites,    \* number of write calls made
    wcount,     \* per element: how many plain writes covered it (2 = more)
    expect,     \* per element: the value its last plain write passed for it
    allplain,   \* every write so far had stride 1 and an in-range hyperslab
    lastfull,   \* stride of the last write if it wrote the full extent, else 0
    wr,         \* the last matrixio_write_real_data call and its outcome
    rd,         \* the last matrixio_read_real_data call and its outcome
    rlog,       \* the read calls the workers of a run have made, in order
    params,     \* the arguments of get_sdos and the globals it reads
    spc,        \* position inside get_sdos
    disk,       \* the container file get_sdos writes
    data_id,    \* the local variable data_id of get_sdos
    opened,     \* dataset handles matrixio_create_dataset returned, in order
    closed,     \* dataset handles passed to matrixio_close_dataset, in order
    abortedIn,  \* where a failed CHECK ended the run, "" if none did
    bo,         \* the state of BtH_overlap
    hs          \* the HDF5 handles a caller of matrixio holds and has open

iovars == <<dset, phase, nwrites, wcount, expect, allplain, lastfull, wr, rd>>
subvars == <<nprocs, calls, pc, callno, sub_id, arrived, group, creators,
             openers, ret>>
sdosvars == <<params, spc, disk, data_id, opened, closed, abortedIn, bo>>
auxvars == <<rlog, hs, sdosvars>>
vars == <<fnames, subvars, iovars, auxvars>>

\* A negative hid_t, as a failed H5 call returns it.
H5I_INVALID_HID == [kind |-> "invalid", n |-> 0]

\* No matrixio call made yet.
NoHCall == [op |-> "none", status |-> "none", before |-> {}, after |-> {},
            opened |-> {}, args |-> {}, returned |-> {}, next |-> 1]

\* A caller before matrixio_create or matrixio_open: no handle is open.
NoHandles == [phase |-> "none", open |-> {}, next |-> 1, id |-> {},
              held |-> {}, names |-> {}, ncalls |-> 0, last |-> NoHCall]

(***************************************************************************)
(* Filename normalisation.                                                 *)
(***************************************************************************)
Alphabet == {".", "h", "5", "a"}

Strings(n) == UNION {[1..k -> Alphabet] : k \in 0..n}

\* #define FNAME_SUFFIX ".h5"
FNAME_SUFFIX == <<".", "h", "5">>

\* C strstr: the offset of the FIRST occurrence of needle in haystack, as a
\* set holding that offset, or {} for the NULL result.
strstr(haystack, needle) ==
    LET occ == {i \in 0..(Len(haystack) - Len(needle)) :
                   SubSeq(haystack, i + 1, i + Len(needle)) = needle}
    IN  IF occ = {} THEN {}
        ELSE {CHOOSE i \in occ : \A j \in occ : i <= j}

\* The suffix is appended unless the first occurrence of ".h5" sits at offset
\* oldlen - suflen.  For oldlen < suflen that offset is negative and strstr
\* returned NULL, so the comparison is unequal and the suffix is appended.
add_fname_suffix(fname) ==
    LET oldlen == Len(fname)
        suflen == Len(FNAME_SUFFIX)
    IN  IF strstr(fname, FNAME_SUFFIX) # {oldlen - suflen}
        THEN fname \o FNAME_SUFFIX
        ELSE fname

InitFname == fnames \in {<<p>> : p \in Strings(MaxLen)}

IdleFname == fnames = <<>>

\* One more normalisation of the name obtained so far (matrixio_create and
\* matrixio_open both pass their argument through add_fname_suffix).
Normalize ==
    /\ Len(fnames) >= 1
    /\ Len(fnames) <= MaxApply
    /\ fnames' = Append(fnames, add_fname_suffix(fnames[Len(fnames)]))
    /\ UNCHANGED <<subvars, iovars, auxvars>>

(***************************************************************************)
(* Collective group creation: matrixio_create_sub.                         *)
(***************************************************************************)
GroupNames == <<"g1", "g2", "g3", "g4">>
Descriptions == {"NULL", "", "text"}
H5FAIL == "H5FAIL"     \* a negative hid_t

Procs == 0..(nprocs - 1)

\* mpi_is_master(): the process of rank 0 is the coordinator.
mpi_is_master(p) == p = 0

NoGroup == [exists |-> FALSE, ncreate |-> 0, nattr |-> 0, attrdone |-> FALSE,
            flushed |-> FALSE, attrby |-> {}, bycall |-> 0]

CurCall(p) == calls[callno[p] + 1]

IdleSub ==
    /\ nprocs = 0
    /\ calls = <<>>
    /\ pc = <<>>
    /\ callno = <<>>
    /\ sub_id = <<>>
    /\ arrived = <<>>
    /\ group = <<>>
    /\ creators = {}
    /\ openers = {}
    /\ ret = <<>>

\* The calls of a run: each a create_sub or a create_dataset for a name.
NodeKinds == {"sub", "dataset"}

CallSeqs(names) ==
    {[k \in 1..Len(names) |-> [kind |-> ks[k], name |-> names[k],
                               description |-> ds[k]]] :
        ks \in [1..Len(names) -> NodeKinds],
        ds \in [1..Len(names) -> Descriptions]}

WorkersAt(cs) ==
    /\ calls = cs
    /\ pc = [p \in Procs |-> "idle"]
    /\ callno = [p \in Procs |-> 0]
    /\ sub_id = [p \in Procs |-> H5FAIL]
    /\ arrived = [p \in Procs |-> 0]
    /\ group = [n \in {cs[k].name : k \in 1..Len(cs)} |-> NoGroup]
    /\ creators = {}
    /\ openers = {}
    /\ ret = [p \in Procs |-> <<>>]

\* Calls for distinct names.
InitNode ==
    /\ nprocs \in 1..MaxProcs
    /\ \E n \in 1..MaxCalls :
          \E cs \in CallSeqs(SubSeq(GroupNames, 1, n)) : WorkersAt(cs)

\* Calls whose names may repeat: a create for a name that exists fails.
InitRepeat ==
    /\ nprocs \in 1..MaxProcs
    /\ \E n \in 1..MaxCalls : \E ns \in [1..n -> {GroupNames[1], GroupNames[2]}] :
          \E cs \in CallSeqs(ns) : WorkersAt(cs)

InitSub ==
    /\ nprocs \in 1..MaxProcs
    /\ \E n \in 1..MaxCalls : \E ds \in [1..n -> Descriptions] :
          calls = [k \in 1..n |-> [kind |-> "sub", name |-> GroupNames[k],
                                   description |-> ds[k]]]
    /\ pc = [p \in Procs |-> "idle"]
    /\ callno = [p \in Procs |-> 0]
    /\ sub_id = [p \in Procs |-> H5FAIL]
    /\ arrived = [p \in Procs |-> 0]
    /\ group = [n \in {calls[k].name : k \in 1..Len(calls)} |-> NoGroup]
    /\ creators = {}
    /\ openers = {}
    /\ ret = [p \in Procs |-> <<>>]

\* Mutant: the branch on mpi_is_master() is lost, every worker creates.
BranchOf_AllCreate(p) == "m_create"

\* Mutant: the follower branch opens the node without waiting at the barrier.
BranchOf_NoBarrier(p) == IF mpi_is_master(p) THEN "m_create" ELSE "f_open"

\* Entry of matrixio_create_sub: the branch on mpi_is_master().
BranchOf(p) == IF mpi_is_master(p) THEN "m_create" ELSE "f_barrier"

CallCreateSub(p) ==
    /\ pc[p] = "idle"
    /\ callno[p] < Len(calls)
    /\ CurCall(p).kind = "sub"
    /\ pc' = [pc EXCEPT ![p] = BranchOf(p)]
    /\ UNCHANGED <<fnames, auxvars, nprocs, calls, callno, sub_id, arrived, group,
                   creators, openers, ret, iovars>>

\* sub_id = H5Gcreate(id, name, 0): fails when the name already exists.
H5Gcreate(p) ==
    /\ pc[p] = "m_create"
    /\ LET n == CurCall(p).name IN
         /\ creators' = creators \cup {<<p, n>>}
         /\ IF group[n].exists
            THEN /\ sub_id' = [sub_id EXCEPT ![p] = H5FAIL]
                 /\ group' = group
            ELSE /\ sub_id' = [sub_id EXCEPT ![p] = n]
                 /\ group' = [group EXCEPT ![n].exists = TRUE,
                                           ![n].ncreate = @ + 1]
    /\ pc' = [pc EXCEPT ![p] = "m_attr"]
    /\ UNCHANGED <<fnames, auxvars, nprocs, calls, callno, arrived, openers, ret, iovars>>

\* Mutant: the early return of the workers other than the master is lost.
IssuesAttr_AnyWorker(p, val) ==
    /\ val # "NULL"
    /\ val # ""

\* add_string_attr, the two early returns: only the master, and only with a
\* non-empty value, goes on to H5Acreate.
IssuesAttr(p, val) ==
    /\ mpi_is_master(p)
    /\ val # "NULL"
    /\ val # ""

\* attr_id = H5Acreate(id, ...): creates the attribute when id is valid.
WritesAttr(p, id, val) ==
    /\ IssuesAttr(p, val)
    /\ id # H5FAIL

\* CHECK(id >= 0, "error creating HDF attr"), placed after H5Acreate: the run
\* is aborted once the attribute was requested on a failed handle.
AttrCheckFails(p, id, val) ==
    /\ IssuesAttr(p, val)
    /\ id = H5FAIL

\* Where the caller of add_string_attr continues: create_sub flushes,
\* create_dataset returns.
AfterAttr(p) == IF pc[p] = "m_attr" THEN "m_flush" ELSE "ret"

add_string_attr(p) ==
    /\ pc[p] \in {"m_attr", "d_attr"}
    /\ LET n   == CurCall(p).name
           val == CurCall(p).description
       IN  IF AttrCheckFails(p, sub_id[p], val)
           THEN /\ pc' = [q \in Procs |-> "aborted"]
                /\ group' = group
           ELSE /\ pc' = [pc EXCEPT ![p] = AfterAttr(p)]
                /\ group' = [group EXCEPT
                      ![n].nattr = IF WritesAttr(p, sub_id[p], val) THEN @ + 1 ELSE @,
                      ![n].attrby = IF WritesAttr(p, sub_id[p], val)
                                    THEN @ \cup {p} ELSE @,
                      ![n].attrdone = @ \/ mpi_is_master(p)]
    /\ UNCHANGED <<fnames, auxvars, nprocs, calls, callno, sub_id, arrived, creators,
                   openers, ret, iovars>>

\* H5Fflush(sub_id, H5F_SCOPE_GLOBAL): the node becomes visible to the others.
AfterFlush(p) == "m_barrier"

H5Fflush(p) ==
    /\ pc[p] = "m_flush"
    /\ group' = [group EXCEPT ![CurCall(p).name].flushed = group[CurCall(p).name].exists]
    /\ pc' = [pc EXCEPT ![p] = AfterFlush(p)]
    /\ UNCHANGED <<fnames, auxvars, nprocs, calls, callno, sub_id, arrived, creators,
                   openers, ret, iovars>>

\* MPI_Barrier(MPI_COMM_WORLD), entry: the worker is counted as arrived.
BarrierArrive(p) ==
    /\ pc[p] \in {"m_barrier", "f_barrier"}
    /\ arrived' = [arrived EXCEPT ![p] = @ + 1]
    /\ pc' = [pc EXCEPT ![p] = IF pc[p] = "m_barrier" THEN "m_wait" ELSE "f_wait"]
    /\ UNCHANGED <<fnames, auxvars, nprocs, calls, callno, sub_id, group, creators,
                   openers, ret, iovars>>

\* MPI_Barrier, exit: no worker leaves its n-th barrier before every worker
\* of the communicator has entered its n-th barrier.
BarrierOpen(p) == \A q \in Procs : arrived[q] >= arrived[p]

\* Where each branch continues after its barrier.
AfterBarrier(p) == IF pc[p] = "m_wait" THEN "ret" ELSE "f_open"

BarrierLeave(p) ==
    /\ pc[p] \in {"m_wait", "f_wait"}
    /\ BarrierOpen(p)
    /\ pc' = [pc EXCEPT ![p] = AfterBarrier(p)]
    /\ UNCHANGED <<fnames, auxvars, nprocs, calls, callno, sub_id, arrived, group,
                   creators, openers, ret, iovars>>

\* sub_id = H5Gopen(id, name): succeeds on a node that exists and is flushed.
H5Gopen(p) ==
    /\ pc[p] = "f_open"
    /\ LET n == CurCall(p).name IN
         /\ openers' = openers \cup {<<p, n>>}
         /\ sub_id' = [sub_id EXCEPT ![p] = IF group[n].flushed THEN n ELSE H5FAIL]
    /\ pc' = [pc EXCEPT ![p] = "ret"]
    /\ UNCHANGED <<fnames, auxvars, nprocs, calls, callno, arrived, group, creators, ret,
                   iovars>>

\* return sub_id;
Return(p) ==
    /\ pc[p] = "ret"
    /\ ret' = [ret EXCEPT ![p] = Append(@, sub_id[p])]
    /\ callno' = [callno EXCEPT ![p] = @ + 1]
    /\ pc' = [pc EXCEPT ![p] = "idle"]
    /\ UNCHANGED <<fnames, auxvars, nprocs, calls, sub_id, arrived, group, creators,
                   openers, iovars>>

\* Entry of matrixio_create_dataset: every worker takes the same path
\* (CHECK(rank > 0) passes, the dataspace is built from a copy of dims).
CallCreateDataset(p) ==
    /\ pc[p] = "idle"
    /\ callno[p] < Len(calls)
    /\ CurCall(p).kind = "dataset"
    /\ pc' = [pc EXCEPT ![p] = "d_create"]
    /\ UNCHANGED <<fnames, auxvars, nprocs, calls, callno, sub_id, arrived, group,
                   creators, openers, ret, iovars>>

\* data_id = H5Dcreate(id, name, ...), called by every worker; the call is
\* collective: the workers making the same call obtain the same new node.
\* It fails when the name exists from an earlier call.
H5Dcreate(p) ==
    /\ pc[p] = "d_create"
    /\ LET n == CurCall(p).name
           k == callno[p] + 1
       IN  IF ~group[n].exists
           THEN /\ sub_id' = [sub_id EXCEPT ![p] = n]
                /\ group' = [group EXCEPT ![n].exists = TRUE,
                                          ![n].ncreate = @ + 1,
                                          ![n].bycall = k]
           ELSE /\ sub_id' = [sub_id EXCEPT ![p] = IF group[n].bycall = k
                                                   THEN n ELSE H5FAIL]
                /\ group' = group
    /\ pc' = [pc EXCEPT ![p] = "d_attr"]
    /\ UNCHANGED <<fnames, auxvars, nprocs, calls, callno, arrived, creators, openers,
                   ret, iovars>>

NextSub ==
    \E p \in Procs :
        \/ CallCreateSub(p)
        \/ H5Gcreate(p)
        \/ add_string_attr(p)
        \/ H5Fflush(p)
        \/ BarrierArrive(p)
        \/ BarrierLeave(p)
        \/ H5Gopen(p)
        \/ Return(p)

\* A worker stops for good before it reaches the barrier of its current
\* call (its process crashed, or it is blocked elsewhere).
BeforeBarrier == {"idle", "m_create", "m_attr", "m_flush", "m_barrier", "f_barrier"}

Stop(p) ==
    /\ pc[p] \in BeforeBarrier
    /\ callno[p] < Len(calls)
    /\ pc' = [pc EXCEPT ![p] = "stopped"]
    /\ UNCHANGED <<fnames, auxvars, nprocs, calls, callno, sub_id, arrived, group,
                   creators, openers, ret, iovars>>

\* The steps of worker p inside matrixio_create_sub.
Worker(p) ==
    /\ p \in Procs
    /\ \/ CallCreateSub(p)
       \/ H5Gcreate(p)
       \/ add_string_attr(p)
       \/ H5Fflush(p)
       \/ BarrierArrive(p)
       \/ BarrierLeave(p)
       \/ H5Gopen(p)
       \/ Return(p)

NextHang == NextSub \/ \E p \in Procs : Stop(p)

\* The workers make a sequence of create_sub and create_dataset calls.
NextNode ==
    \E p \in Procs :
        \/ CallCreateSub(p)
        \/ H5Gcreate(p)
        \/ CallCreateDataset(p)
        \/ H5Dcreate(p)
        \/ add_string_attr(p)
        \/ H5Fflush(p)
        \/ BarrierArrive(p)
        \/ BarrierLeave(p)
        \/ H5Gopen(p)
        \/ Return(p)


(***************************************************************************)
(* Claims about matrixio_create_sub.                                       *)
(***************************************************************************)

\* C1: for K >= 1 workers calling create_sub for the same name, exactly one
\* H5Gcreate is performed, by the coordinator; every follower opens and never
\* creates; every returned handle refers to the same node; with K = 1 the
\* barrier does not block.
C1_ExactlyOnceCreation ==
    /\ \A n \in DOMAIN group : group[n].ncreate <= 1
    /\ \A c \in creators : mpi_is_master(c[1])
    /\ \A p \in Procs : \A k \in 1..Len(ret[p]) :
          LET n == calls[k].name IN
            /\ group[n].ncreate = 1
            /\ Cardinality({c \in creators : c[2] = n}) = 1
            /\ ret[p][k] = n
            /\ mpi_is_master(p) => <<p, n>> \in creators
            /\ ~mpi_is_master(p) => <<p, n>> \in openers /\ <<p, n>> \notin creators
    /\ nprocs = 1 => \A p \in Procs : pc[p] = "m_wait" => ENABLED BarrierLeave(p)

C1_Witness ==
    /\ nprocs >= 3
    /\ \A p \in Procs : Len(ret[p]) = Len(calls)

\* C2: whenever a follower has issued (or is about to issue) its open of a
\* node, the coordinator's create, attribute write and flush of that node
\* have completed; this holds for every call of a sequence of calls.
C2_OpenAfterFlush ==
    /\ \A o \in openers :
          group[o[2]].exists /\ group[o[2]].attrdone /\ group[o[2]].flushed
    /\ \A p \in Procs : pc[p] = "f_open" =>
          LET n == CurCall(p).name IN
            group[n].exists /\ group[n].attrdone /\ group[n].flushed

C2_Witness ==
    /\ Len(calls) >= 2
    /\ \E p \in Procs : ~mpi_is_master(p) /\ <<p, calls[2].name>> \in openers

\* C11: a node gets at most one description attribute, created by the
\* coordinator only; once every worker has returned from the create_sub or
\* create_dataset call for a node, the node has one attribute if the
\* description is non-empty and none if it is NULL or empty; no worker other
\* than the coordinator creates an attribute and no call raises an error.
C11_AttributeOnceByCoordinator ==
    /\ \A n \in DOMAIN group :
          /\ group[n].nattr <= 1
          /\ \A w \in group[n].attrby : mpi_is_master(w)
    /\ \A k \in 1..Len(calls) :
          (\A p \in Procs : Len(ret[p]) >= k) =>
             group[calls[k].name].nattr =
                IF calls[k].description \in {"NULL", ""} THEN 0 ELSE 1
    /\ \A p \in Procs : pc[p] # "aborted"

C11_Witness ==
    /\ nprocs >= 2
    /\ Len(calls) = 2
    /\ calls[1].kind = "dataset" /\ calls[1].description = "text"
    /\ calls[2].kind = "sub" /\ calls[2].description = ""
    /\ \A p \in Procs : Len(ret[p]) = 2
    /\ group[calls[1].name].attrby = {0}

AllReturned == \A p \in Procs : Len(ret[p]) = Len(calls)
SomeStopped == \E p \in Procs : pc[p] = "stopped"

\* Each worker enters the barrier exactly once per call, and no worker has
\* returned from its k-th call unless every worker entered its k-th barrier.
BarrierOncePerCall ==
    \A p \in Procs :
        /\ pc[p] = "idle" => arrived[p] = callno[p]
        /\ arrived[p] \in {callno[p], callno[p] + 1}
        /\ Len(ret[p]) = callno[p]
        /\ \A q \in Procs : Len(ret[p]) <= arrived[q]

\* C16: (a) if every worker makes the create_sub calls (none stops), then
\* under weak fairness every worker eventually returns from all of them, and
\* each worker passes the barrier exactly once per call; (b) a worker returns
\* from a call only if every worker reached the barrier of that call: while
\* one worker never reaches it, no other worker returns.
C16_BarrierProgress ==
    /\ []BarrierOncePerCall
    /\ <>(AllReturned \/ SomeStopped)

C16_Witness ==
    /\ nprocs >= 3
    /\ Len(calls) = 2
    /\ \A p \in Procs : Len(ret[p]) >= 1
    /\ \E p \in Procs : pc[p] = "stopped" /\ arrived[p] = 1
    /\ \E p \in Procs : pc[p] = "f_wait" /\ arrived[p] = 2
    /\ pc[0] = "m_wait" /\ arrived[0] = 2

\* The positions of create_sub and create_dataset after the H5Gcreate,
\* H5Gopen or H5Dcreate of the call.
AfterCreateOrOpen == {"m_attr", "m_flush", "m_barrier", "m_wait", "d_attr", "ret"}

\* C13: a failed group or dataset create/open ends the run at once: no
\* worker goes on in create_sub or create_dataset holding a failed handle,
\* and no failed handle is ever returned to a caller.
C13_FailureAborts ==
    \A p \in Procs :
        /\ pc[p] \in AfterCreateOrOpen => sub_id[p] # H5FAIL
        /\ \A k \in 1..Len(ret[p]) : ret[p][k] # H5FAIL

(***************************************************************************)
(* Datasets and hyperslab selections, as the HDF5 calls of the write and   *)
(* read paths use them.  Indices, offsets and starts are 0-based as in C;  *)
(* a C array a[0..r-1] is the sequence <<a[0], ..., a[r-1]>>.              *)
(***************************************************************************)
Ranks == {1, 2}
Strides == {-1, 0, 1, 2}       \* stride arguments given to write
ReadStrides == {1, 2}          \* stride arguments given to read

RECURSIVE Prod(_)
Prod(s) == IF s = <<>> THEN 1 ELSE Head(s) * Prod(Tail(s))

Shapes == {d \in UNION {[1..r -> 1..MaxElems] : r \in Ranks} : Prod(d) <= MaxElems}

Ones(r) == [i \in 1..r |-> 1]
Zeros(r) == [i \in 1..r |-> 0]

\* hsize_t arithmetic is modulo 2^64.  A residue v >= 2^63 is written as the
\* negative number v - 2^64, so the product of a small count and a negative
\* int stride is the (negative) integer product.
hsize_mul(a, b) == a * b

\* x <= d for an hsize_t extent d (a negative d stands for 2^64 + d).
WithinExtent(x, d) == d < 0 \/ x <= d

\* Row-major offset of the coordinate c in a dataspace of extents dims, as
\* HDF5 computes it (modulo 2^64, in the same signed writing).
RECURSIVE Offset(_, _, _)
Offset(c, dims, acc) ==
    IF c = <<>> THEN acc
    ELSE Offset(Tail(c), Tail(dims), acc * Head(dims) + Head(c))

\* The n-th (n >= 0) multi-index of a block of extents count, last axis
\* varying fastest.
Unrank(n, count) ==
    [i \in 1..Len(count) |->
        (n \div Prod(SubSeq(count, i + 1, Len(count)))) % count[i]]

\* H5Screate_simple(rank, dims, NULL): refused for an extent of 0 or of
\* H5S_UNLIMITED (2^64 - 1).
H5Screate_simple_ok(dims) == \A i \in 1..Len(dims) : dims[i] # 0 /\ dims[i] # -1

\* H5Sselect_hyperslab(space, H5S_SELECT_SET, start, stride, count, NULL):
\* the selection lies inside the extents of the dataspace.
SelectionInExtent(dims, start, stride, count) ==
    \A i \in 1..Len(dims) :
        /\ start[i] >= 0
        /\ WithinExtent(start[i] + (count[i] - 1) * stride[i] + 1, dims[i])

\* The offsets of the selected elements in the order HDF5 transfers them.
SelectionOffsets(dims, start, stride, count) ==
    [n \in 1..Prod(count) |->
        LET j == Unrank(n - 1, count)
        IN  Offset([i \in 1..Len(dims) |-> start[i] + j[i] * stride[i]], dims, 0)]

\* The buffer a caller passes: BufLen slots, slot k holding k + 1.
Ramp(len) == [k \in 1..len |-> k]
\* A fresh output buffer: slot k holding -(k + 1).
Fresh(len) == [k \in 1..len |-> -k]
At(buf, k) == buf[k + 1]      \* buf[k] of the C array

NoCall == [op |-> "none"]

IdleIO ==
    /\ dset = <<>>
    /\ phase = "none"
    /\ nwrites = 0
    /\ wcount = <<>>
    /\ expect = <<>>
    /\ allplain = TRUE
    /\ lastfull = 0
    /\ wr = NoCall
    /\ rd = NoCall

\* matrixio_create_dataset(id, name, description, rank, dims): a dataset of
\* fixed extents, its elements holding the fill value 0.
matrixio_create_dataset(dims) ==
    [dims |-> dims, data |-> [k \in 1..Prod(dims) |-> 0]]

InitIO ==
    /\ \E d \in Shapes : dset = matrixio_create_dataset(d)
    /\ phase = "write"
    /\ nwrites = 0
    /\ wcount = [k \in 1..Prod(dset.dims) |-> 0]
    /\ expect = [k \in 1..Prod(dset.dims) |-> 0]
    /\ allplain = TRUE
    /\ lastfull = 0
    /\ wr = NoCall
    /\ rd = NoCall

(***************************************************************************)
(* matrixio_write_real_data                                                *)
(***************************************************************************)
\* Mutant: the file selection starts at the origin whatever local_start is.
WriteFileStart_Origin(local_start) == Zeros(Len(local_start))

\* start[i] = local_start[i];
WriteFileStart(local_start) == local_start

\* count[rank - 1] *= stride; mem_space_id = H5Screate_simple(rank, count)
WriteMemDims(local_dims, stride) ==
    [i \in 1..Len(local_dims) |->
        IF i = Len(local_dims) THEN hsize_mul(local_dims[i], stride)
        ELSE local_dims[i]]

\* Mutant: the memory selection is always contiguous (strides never passed).
WriteMemStride_Contiguous(rank, stride) == Ones(rank)

\* strides[rank - 1] = stride; the selection gets (stride <= 1 ? NULL : strides)
WriteMemStride(rank, stride) ==
    IF stride <= 1 THEN Ones(rank)
    ELSE [i \in 1..rank |-> IF i = rank THEN stride ELSE 1]

\* Number of slots of the caller's buffer.
WriteBufLen(local_dims, stride) ==
    Prod(local_dims) * (IF stride >= 1 THEN stride ELSE 1)

\* The hyperslab (start, count) holds the coordinate of the element at
\* row-major offset k of a dataset of extents dims.
Covers(dims, start, count, k) ==
    LET c == Unrank(k, dims)
    IN  \A i \in 1..Len(dims) : start[i] <= c[i] /\ c[i] < start[i] + count[i]

PlainWrite(dims, local_dims, local_start, stride) ==
    /\ stride = 1
    /\ \A i \in 1..Len(dims) : local_start[i] + local_dims[i] <= dims[i]

\* The write call with H5Dwrite's outcome: the dataset afterwards.
WriteResult(local_dims, local_start, stride, junk) ==
    LET rank == Len(dset.dims)
        buf == Ramp(WriteBufLen(local_dims, stride))
        mem_dims == WriteMemDims(local_dims, stride)
        mem_stride == WriteMemStride(rank, stride)
        start == WriteFileStart(local_start)
        file_ok == SelectionInExtent(dset.dims, start, Ones(rank), local_dims)
        mem_ok == /\ H5Screate_simple_ok(mem_dims)
                  /\ SelectionInExtent(mem_dims, Zeros(rank), mem_stride, local_dims)
        fsel == IF file_ok
                THEN SelectionOffsets(dset.dims, start, Ones(rank), local_dims)
                ELSE <<>>
        msel == IF mem_ok
                THEN SelectionOffsets(mem_dims, Zeros(rank), mem_stride, local_dims)
                ELSE <<>>
        go == file_ok /\ mem_ok
        wild == go /\ \E n \in 1..Len(msel) : msel[n] \notin 0..(Len(buf) - 1)
        crash == wild /\ junk.crash
        val(n) == IF msel[n] \in 0..(Len(buf) - 1) THEN At(buf, msel[n]) ELSE junk.v
    IN  [op |-> "write", local_dims |-> local_dims, local_start |-> local_start,
         stride |-> stride, buf |-> buf,
         mem_dims |-> mem_dims, fsel |-> fsel, msel |-> msel,
         status |-> IF crash THEN "crash" ELSE "returned",
         transferred |-> go /\ ~crash,
         wild |-> wild,
         before |-> dset.data,
         after |-> IF go /\ ~crash
                   THEN [k \in 1..Len(dset.data) |->
                           IF \E n \in 1..Len(fsel) : fsel[n] = k - 1
                           THEN val(CHOOSE n \in 1..Len(fsel) : fsel[n] = k - 1)
                           ELSE dset.data[k]]
                   ELSE dset.data]

\* What reading outside the caller's buffer can do: end the process, or
\* yield some value.
Junk == {[crash |-> TRUE, v |-> -1], [crash |-> FALSE, v |-> -1],
         [crash |-> FALSE, v |-> -2]}
NoJunk == [crash |-> FALSE, v |-> -1]

matrixio_write_real_data(local_dims, local_start, stride, junk) ==
    /\ phase = "write"
    /\ LET res == WriteResult(local_dims, local_start, stride, junk)
           plain == PlainWrite(dset.dims, local_dims, local_start, stride)
       IN  /\ junk # NoJunk => res.wild
           /\ wr' = res
           /\ dset' = [dset EXCEPT !.data = res.after]
           /\ allplain' = (allplain /\ plain)
           /\ lastfull' = IF /\ res.transferred
                             /\ stride >= 1
                             /\ local_dims = dset.dims
                             /\ local_start = Zeros(Len(dset.dims))
                          THEN stride ELSE 0
           /\ wcount' = [k \in 1..Len(wcount) |->
                           IF plain /\ Covers(dset.dims, local_start, local_dims, k - 1)
                           THEN (IF wcount[k] >= 1 THEN 2 ELSE 1)
                           ELSE wcount[k]]
           /\ expect' = [k \in 1..Len(expect) |->
                           IF plain /\ Covers(dset.dims, local_start, local_dims, k - 1)
                           THEN LET c == Unrank(k - 1, dset.dims)
                                IN  At(Ramp(Prod(local_dims)),
                                       Offset([i \in 1..Len(c) |-> c[i] - local_start[i]],
                                              local_dims, 0))
                           ELSE expect[k]]
    /\ nwrites' = nwrites + 1
    /\ UNCHANGED <<fnames, subvars, phase, rd>>

\* matrixio_close, then matrixio_open: the container is reopened read-only.
Reopen ==
    /\ phase = "write"
    /\ phase' = "read"
    /\ wr' = NoCall
    /\ UNCHANGED <<fnames, auxvars, subvars, dset, nwrites, wcount, expect, allplain,
                   lastfull, rd>>

WriteArgs == [r \in Ranks |-> [1..r -> 1..MaxElems] \X [1..r -> 0..(MaxElems - 1)]]

\* A write call with any stride and any hyperslab that starts inside the
\* dataset and is no larger than it (it may reach beyond the extents).
NextWrite ==
    /\ phase = "write"
    /\ nwrites < MaxWrites
    /\ \E a \in WriteArgs[Len(dset.dims)] : \E stride \in Strides : \E junk \in Junk :
        /\ \A i \in 1..Len(dset.dims) :
              a[1][i] <= dset.dims[i] /\ a[2][i] < dset.dims[i]
        /\ matrixio_write_real_data(a[1], a[2], stride, junk)
        /\ UNCHANGED auxvars

\* A write call with stride 1 and a hyperslab inside the extents.
NextPlainWrite ==
    /\ phase = "write"
    /\ nwrites < MaxCover
    /\ \E a \in WriteArgs[Len(dset.dims)] :
        /\ \A i \in 1..Len(dset.dims) : a[2][i] + a[1][i] <= dset.dims[i]
        /\ matrixio_write_real_data(a[1], a[2], 1, NoJunk)
        /\ UNCHANGED auxvars

(***************************************************************************)
(* matrixio_read_real_data                                                 *)
(***************************************************************************)
\* Mutant: the loop comparing the extents is missing.
ReadValidation_NoSizeCheck(rank, dims) ==
    IF ~(rank > 0) THEN "non-positive rank"
    ELSE IF rank # Len(dset.dims) THEN "rank mismatch"
    ELSE "passed"

\* Mutant: the loop comparing the extents starts at axis 1.
ReadValidation_SkipAxis0(rank, dims) ==
    IF ~(rank > 0) THEN "non-positive rank"
    ELSE IF rank # Len(dset.dims) THEN "rank mismatch"
    ELSE IF \E i \in 2..rank : dset.dims[i] # dims[i] THEN "size mismatch"
    ELSE "passed"

\* CHECK(rank > 0), CHECK(rank == H5Sget_simple_extent_ndims(space_id)) and
\* the loop of CHECK(dims_copy[i] == dims[i]): the first failing CHECK ends
\* the run.
ReadValidation(rank, dims) ==
    IF ~(rank > 0) THEN "non-positive rank"
    ELSE IF rank # Len(dset.dims) THEN "rank mismatch"
    ELSE IF \E i \in 1..rank : dset.dims[i] # dims[i] THEN "size mismatch"
    ELSE "passed"

\* dims_copy[0] = local_dim0; dims_copy[rank - 1] *= stride;
ReadMemDims(dims, local_dim0, stride) ==
    LET d0 == [dims EXCEPT ![1] = local_dim0]
    IN  [d0 EXCEPT ![Len(dims)] = hsize_mul(d0[Len(dims)], stride)]

\* Mutant: strides[rank - 1] = stride is missing.
ReadMemStride_Contiguous(rank, stride) == Ones(rank)

\* strides[i] = 1; strides[rank - 1] = stride;
ReadMemStride(rank, stride) == [i \in 1..rank |-> IF i = rank THEN stride ELSE 1]

\* count[i] = dims[i]; count[0] = local_dim0;
ReadCount(dims, local_dim0) == [dims EXCEPT ![1] = local_dim0]

\* Mutant: the file selection starts at row 0 whatever local_dim0_start is.
ReadFileStart_Origin(rank, local_dim0_start) == Zeros(rank)

\* start[i] = 0; start[0] = local_dim0_start;
ReadFileStart(rank, local_dim0_start) ==
    [i \in 1..rank |-> IF i = 1 THEN local_dim0_start ELSE 0]

ReadBufLen(dims, local_dim0, stride) ==
    IF dims = <<>> THEN 1 ELSE Prod(ReadCount(dims, local_dim0)) * stride

ReadResult(rank, dims, local_dim0, local_dim0_start, stride) ==
    LET buf == Fresh(ReadBufLen(dims, local_dim0, stride))
        check == ReadValidation(rank, dims)
        call == [op |-> "read", rank |-> rank, dims |-> dims,
                 local_dim0 |-> local_dim0, local_dim0_start |-> local_dim0_start,
                 stride |-> stride, before |-> buf, at |-> dset.data]
    IN  IF check # "passed"
        THEN call @@ [status |-> "fatal", message |-> check, issued |-> FALSE,
                      transferred |-> FALSE, fsel |-> <<>>, msel |-> <<>>,
                      after |-> buf]
        ELSE
        LET mem_dims == ReadMemDims(dims, local_dim0, stride)
            count == ReadCount(dims, local_dim0)
            mem_stride == ReadMemStride(rank, stride)
            start == ReadFileStart(rank, local_dim0_start)
            mem_ok == /\ H5Screate_simple_ok(mem_dims)
                      /\ SelectionInExtent(mem_dims, Zeros(rank), mem_stride, count)
            file_ok == SelectionInExtent(dset.dims, start, Ones(rank), count)
            go == mem_ok /\ file_ok
            msel == IF mem_ok
                    THEN SelectionOffsets(mem_dims, Zeros(rank), mem_stride, count)
                    ELSE <<>>
            fsel == IF file_ok
                    THEN SelectionOffsets(dset.dims, start, Ones(rank), count)
                    ELSE <<>>
        IN  call @@ [status |-> "returned", message |-> check, issued |-> TRUE,
                     transferred |-> go, fsel |-> fsel, msel |-> msel,
                     after |-> IF go
                               THEN [k \in 1..Len(buf) |->
                                       IF \E n \in 1..Len(msel) : msel[n] = k - 1
                                       THEN At(dset.data,
                                               fsel[CHOOSE n \in 1..Len(msel) :
                                                       msel[n] = k - 1])
                                       ELSE buf[k]]
                               ELSE buf]

\* A read leaves the container as it is and its outcome does not depend on
\* earlier reads.
matrixio_read_real_data(rank, dims, local_dim0, local_dim0_start, stride) ==
    /\ phase = "read"
    /\ rd' = ReadResult(rank, dims, local_dim0, local_dim0_start, stride)
    /\ UNCHANGED <<fnames, subvars, dset, phase, nwrites, wcount, expect,
                   allplain, lastfull, wr>>

\* The shapes a reader declares: every shape of the model, and rank 0.
ReadShapes == Shapes \cup {<<>>}

NextRead ==
    /\ phase = "read"
    /\ rd = NoCall
    /\ \E dims \in ReadShapes : \E local_dim0 \in 1..MaxElems :
       \E local_dim0_start \in 0..(MaxElems - 1) : \E stride \in ReadStrides :
        /\ dims = dset.dims => local_dim0 <= dims[1] /\ local_dim0_start < dims[1]
        /\ dims # dset.dims /\ dims # <<>> =>
               local_dim0 = dims[1] /\ local_dim0_start = 0
        /\ dims = <<>> => local_dim0 = 1 /\ local_dim0_start = 0
        /\ matrixio_read_real_data(Len(dims), dims, local_dim0, local_dim0_start,
                                   stride)
        /\ UNCHANGED auxvars

\* A container holding one dataset, as a stride-1 write of the full extent
\* from a buffer holding 1, 2, ... left it, reopened read-only.
InitReaders ==
    /\ \E d \in Shapes :
          dset = [matrixio_create_dataset(d) EXCEPT !.data = Ramp(Prod(d))]
    /\ phase = "read"
    /\ nwrites = 1
    /\ wcount = [k \in 1..Prod(dset.dims) |-> 1]
    /\ expect = Ramp(Prod(dset.dims))
    /\ allplain = TRUE
    /\ lastfull = 1
    /\ wr = NoCall
    /\ rd = NoCall
    /\ rlog = <<>>
    /\ hs = NoHandles

\* The workers of a run read the dataset, each declaring the stored shape
\* and its own rows local_dim0_start .. local_dim0_start + local_dim0 - 1.
NextReaders ==
    /\ phase = "read"
    /\ Len(rlog) < MaxReaders
    /\ \E local_dim0 \in 1..dset.dims[1] :
       \E local_dim0_start \in 0..(dset.dims[1] - 1) : \E stride \in ReadStrides :
        /\ matrixio_read_real_data(Len(dset.dims), dset.dims, local_dim0,
                                   local_dim0_start, stride)
        /\ rlog' = Append(rlog, rd')
        /\ UNCHANGED <<hs, sdosvars>>

NextIO == NextWrite \/ Reopen \/ NextRead

NextCover == NextPlainWrite \/ Reopen \/ NextRead

(***************************************************************************)
(* get_sdos and BtH_overlap (src/mpb/sdos.c).                              *)
(***************************************************************************)
GIdx == {-1, 0, 1}          \* requested G-vector indices
GridSizes == {1, 2, 4}      \* mdata->nx, mdata->ny, mdata->nz

\* C integer division, truncating towards zero (b > 0).
CDiv(a, b) == IF a >= 0 THEN a \div b ELSE -((-a) \div b)

\* The arguments of a get_sdos / BtH_overlap call (the index bounds after
\* myround) and the globals read: the grid of mdata, num_bands and
\* Hblock.alloc_p.
ParamSets(freqs, bands, blocks) ==
    [freq_num : freqs, band_min : 0..1, n_bands : bands, num_bands : {MaxBands},
     alloc_p : blocks,
     iG1_min : GIdx, iG1_max : GIdx, iG2_min : GIdx, iG2_max : GIdx,
     iG3_min : GIdx, iG3_max : GIdx,
     nx : GridSizes, ny : GridSizes, nz : GridSizes]

nG1(a) == a.iG1_max - a.iG1_min + 1
nG2(a) == a.iG2_max - a.iG2_min + 1
nG3(a) == a.iG3_max - a.iG3_min + 1
\* int nG = nG1 * nG2 * nG3; total number of G vectors requested
nG(a) == nG1(a) * nG2(a) * nG3(a)

\* real iGspan[6] = {...}
iGspan(a) == <<a.iG1_min, a.iG1_max, a.iG2_min, a.iG2_max, a.iG2_min, a.iG2_max>>

\* int iodims0[1] = {freq_num*nG}, iodims1[1] = {3}, iodims2[1] = {6},
\*     iodims3[1] = {1}, iostart[1] = {0};
iodims0(a) == <<a.freq_num * nG(a)>>
iodims1 == <<3>>
iodims2 == <<6>>
iodims3 == <<1>>
iostart == <<0>>

\* The four matrixio_create_dataset / matrixio_write_real_data pairs of
\* get_sdos, in program order.
Datasets(a) ==
    <<[name |-> "sdos", dims |-> iodims0(a)],
      [name |-> "freqspan", dims |-> iodims1],
      [name |-> "iGspan", dims |-> iodims2],
      [name |-> "kpoint", dims |-> iodims3]>>

\* CHK_MALLOC(p, t, n): malloc(sizeof(t) * n) and a CHECK of the result. A
\* negative int n becomes a size_t beyond the address space, the allocation
\* fails and the run ends with "out of memory!".
CHK_MALLOC_fails(n) == n < 0

\* The CHK_MALLOCs of get_sdos, in program order.
get_sdos_allocs(a) ==
    <<nG(a) * a.n_bands, a.freq_num, a.freq_num, a.n_bands, a.freq_num * nG(a), 256>>

\* Mutant: the bounds are -n and n instead of -n/2 and n/2.
InBounds_NoHalf(iG_min, iG_max, n) ==
    \/ (iG_min > -n) /\ (iG_max <= n)
    \/ (iG_min = iG_max) /\ (iG_max = n - 1) /\ (n - 1 = 0)

\* The bounds CHECK of one axis.
InBounds(iG_min, iG_max, n) ==
    \/ (iG_min > CDiv(-n, 2)) /\ (iG_max <= CDiv(n, 2))
    \/ (iG_min = iG_max) /\ (iG_max = n - 1) /\ (n - 1 = 0)

\* The CHK_MALLOCs and CHECKs at the head of BtH_overlap: the message of the
\* first that fails.
BtH_checks(a) ==
    IF CHK_MALLOC_fails(nG(a)) THEN "out of memory!"
    ELSE IF ~(a.iG1_min <= a.iG1_max /\ a.iG2_min <= a.iG2_max
              /\ a.iG3_min <= a.iG3_max)
         THEN "req'ed G vectors must be incrementing (min<=max)"
    ELSE IF ~InBounds(a.iG1_min, a.iG1_max, a.nx) THEN "iG1 out of bounds"
    ELSE IF ~InBounds(a.iG2_min, a.iG2_max, a.ny) THEN "iG2 out of bounds"
    ELSE IF ~InBounds(a.iG3_min, a.iG3_max, a.nz) THEN "iG3 out of bounds"
    ELSE IF ~(a.band_min + a.n_bands <= a.num_bands)
         THEN "not enough bands in shift_overlap"
    ELSE "passed"

NoAbort == [fn |-> "", msg |-> ""]
NoDisk == [exists |-> FALSE, datasets |-> <<>>]
NoOverlap == [pc |-> "idle"]

IdleSdos ==
    /\ params = <<>>
    /\ spc = "none"
    /\ disk = NoDisk
    /\ data_id = H5FAIL
    /\ opened = <<>>
    /\ closed = <<>>
    /\ abortedIn = NoAbort
    /\ bo = NoOverlap

IdleAux == rlog = <<>> /\ hs = NoHandles /\ IdleSdos

\* The state at the entry of get_sdos.
InitSdos ==
    /\ params \in ParamSets(1..MaxFreq, 1..MaxBands, {1})
    /\ spc = "alloc"
    /\ disk = NoDisk
    /\ data_id = H5FAIL
    /\ opened = <<>>
    /\ closed = <<>>
    /\ abortedIn = NoAbort
    /\ bo = NoOverlap
    /\ rlog = <<>>
    /\ hs = NoHandles

\* CHK_MALLOC(BtH, ...) ... CHK_MALLOC(savename, char, 256)
GsAlloc ==
    /\ spc = "alloc"
    /\ IF \E i \in 1..Len(get_sdos_allocs(params)) :
             CHK_MALLOC_fails(get_sdos_allocs(params)[i])
       THEN /\ spc' = "aborted"
            /\ abortedIn' = [fn |-> "get_sdos", msg |-> "out of memory!"]
       ELSE /\ spc' = "overlap"
            /\ abortedIn' = abortedIn
    /\ UNCHANGED <<fnames, subvars, iovars, rlog, hs, params, disk, data_id, opened,
                   closed, bo>>

\* BtH_overlap(BtH, band_min, n_bands, iG1_min, ...), then the summation.
GsOverlap ==
    /\ spc = "overlap"
    /\ IF BtH_checks(params) # "passed"
       THEN /\ spc' = "aborted"
            /\ abortedIn' = [fn |-> "BtH_overlap", msg |-> BtH_checks(params)]
            /\ bo' = [pc |-> "aborted"]
       ELSE /\ spc' = "create"
            /\ abortedIn' = abortedIn
            /\ bo' = [pc |-> "returned"]
    /\ UNCHANGED <<fnames, subvars, iovars, rlog, hs, params, disk, data_id, opened,
                   closed>>

\* file_id = matrixio_create(savename): the container is created, or
\* truncated if it exists.
GsCreate ==
    /\ spc = "create"
    /\ disk' = [exists |-> TRUE, datasets |-> <<>>]
    /\ phase' = "write"
    /\ spc' = "create_dataset"
    /\ UNCHANGED <<fnames, subvars, dset, nwrites, wcount, expect, allplain,
                   lastfull, wr, rd, rlog, hs, params, data_id, opened, closed,
                   abortedIn, bo>>

\* data_id = matrixio_create_dataset(file_id, name, description, 1, iodims)
GsCreateDataset ==
    /\ spc = "create_dataset"
    /\ LET d == Datasets(params)[Len(opened) + 1] IN
         /\ dset' = matrixio_create_dataset(d.dims)
         /\ wcount' = [k \in 1..Prod(d.dims) |-> 0]
         /\ expect' = [k \in 1..Prod(d.dims) |-> 0]
         /\ data_id' = d.name
         /\ opened' = Append(opened, d.name)
         /\ disk' = [disk EXCEPT !.datasets =
                        Append(@, [name |-> d.name, dims |-> d.dims,
                                   data |-> dset'.data, transferred |-> 0])]
    /\ allplain' = TRUE
    /\ lastfull' = 0
    /\ wr' = NoCall
    /\ spc' = "write"
    /\ UNCHANGED <<fnames, subvars, phase, nwrites, rd, rlog, hs, params, closed,
                   abortedIn, bo>>

\* matrixio_write_real_data(data_id, iodims, iostart, 1, buffer)
GsWrite ==
    /\ spc = "write"
    /\ matrixio_write_real_data(Datasets(params)[Len(opened)].dims, iostart, 1,
                                NoJunk)
    /\ disk' = [disk EXCEPT
                   !.datasets[Len(opened)].data = dset'.data,
                   !.datasets[Len(opened)].transferred =
                       IF wr'.transferred THEN Len(wr'.fsel) ELSE 0]
    /\ spc' = IF Len(opened) < Len(Datasets(params)) THEN "create_dataset"
              ELSE "close_dataset"
    /\ UNCHANGED <<rlog, hs, params, data_id, opened, closed, abortedIn, bo>>

\* matrixio_close_dataset(data_id)
GsCloseDataset ==
    /\ spc = "close_dataset"
    /\ closed' = Append(closed, data_id)
    /\ spc' = "close"
    /\ UNCHANGED <<fnames, subvars, iovars, rlog, hs, params, disk, data_id, opened,
                   abortedIn, bo>>

\* matrixio_close(file_id), then the frees and the return.
GsClose ==
    /\ spc = "close"
    /\ phase' = "closed"
    /\ spc' = "done"
    /\ UNCHANGED <<fnames, subvars, dset, nwrites, wcount, expect, allplain,
                   lastfull, wr, rd, rlog, hs, params, disk, data_id, opened, closed,
                   abortedIn, bo>>

\* The state at the entry of BtH_overlap: the work block Hblock has its full
\* width, no element of BtH has been assigned.
InitOverlap ==
    /\ params \in ParamSets({1}, 1..MaxBands, 1..MaxBlock)
    /\ spc = "none"
    /\ disk = NoDisk
    /\ data_id = H5FAIL
    /\ opened = <<>>
    /\ closed = <<>>
    /\ abortedIn = NoAbort
    /\ bo = [pc |-> "entry", ib |-> 0, p |-> params.alloc_p, list |-> <<>>,
             BtH |-> [k \in 1..(nG(params) * params.n_bands) |->
                        [cnt |-> 0, band |-> -1, n |-> -1]],
             outside |-> {}]
    /\ rlog = <<>>
    /\ hs = NoHandles

\* The CHK_MALLOCs and CHECKs at the head of BtH_overlap.
BoEntry ==
    /\ bo.pc = "entry"
    /\ IF BtH_checks(params) # "passed"
       THEN /\ bo' = [bo EXCEPT !.pc = "aborted"]
            /\ abortedIn' = [fn |-> "BtH_overlap", msg |-> BtH_checks(params)]
       ELSE /\ bo' = [bo EXCEPT !.pc = "lists"]
            /\ abortedIn' = abortedIn
    /\ UNCHANGED <<fnames, subvars, iovars, rlog, hs, params, spc, disk, data_id,
                   opened, closed>>

\* ixt = i1 <= 0 ? -i1 : nx - i1; the array position of a G-vector index.
ArrayPos(i, n) == IF i <= 0 THEN -i ELSE n - i

\* The three nested loops that fill ix[], iy[], iz[]: the entries appended
\* from (i1, i2, i3) on, i3 innermost.  Each entry also keeps the G-vector
\* it was made from.
RECURSIVE GList(_, _, _, _, _)
GList(a, i1, i2, i3, acc) ==
    IF i1 > a.iG1_max THEN acc
    ELSE IF i2 > a.iG2_max THEN GList(a, i1 + 1, a.iG2_min, a.iG3_min, acc)
    ELSE IF i3 > a.iG3_max THEN GList(a, i1, i2 + 1, a.iG3_min, acc)
    ELSE GList(a, i1, i2, i3 + 1,
               Append(acc, [ix |-> ArrayPos(i1, a.nx), iy |-> ArrayPos(i2, a.ny),
                            iz |-> ArrayPos(i3, a.nz), g |-> <<i1, i2, i3>>]))

BoLists ==
    /\ bo.pc = "lists"
    /\ bo' = [bo EXCEPT
                !.list = GList(params, params.iG1_min, params.iG2_min,
                               params.iG3_min, <<>>),
                !.ib = params.band_min,
                !.pc = "loop"]
    /\ UNCHANGED <<fnames, subvars, iovars, rlog, hs, params, spc, disk, data_id,
                   opened, closed, abortedIn>>

\* (ix[n]*ny+iy[n])*nz+iz[n]: the grid point of list entry e in the field
\* arrays H.data and Hblock.data.
FieldPos(a, e) == (e.ix * a.ny + e.iy) * a.nz + e.iz

\* int final_band = band_min + n_bands
final_band(a) == a.band_min + a.n_bands

\* evectmatrix_resize(&Hblock, p, 0): Hblock.p becomes p.
evectmatrix_resize(p) == p

\* Mutant: the last, shorter block is not resized.
BlockWidth_NoResize(a, ib, p) == p

\* if (ib + Hblock.alloc_p > final_band) evectmatrix_resize(&Hblock,
\* final_band - ib, 0): the value of Hblock.p during the block at ib.
BlockWidth(a, ib, p) ==
    IF ib + a.alloc_p > final_band(a) THEN evectmatrix_resize(final_band(a) - ib)
    ELSE p

\* BtH[n*n_bands+ibb-band_min] = polsum;
BtHIndex(a, n, ibb) == n * a.n_bands + ibb - a.band_min

\* One pass of the loop over ib: the block of bands ib .. ib + Hblock.p - 1
\* is computed and, for every n < nG and every band ibb of the block, the
\* element BtHIndex(n, ibb) is assigned the sum for list entry n and band ibb.
BoBlock ==
    /\ bo.pc = "loop"
    /\ bo.ib < final_band(params)
    /\ LET p1 == BlockWidth(params, bo.ib, bo.p)
           W == {<<n, ibb>> : n \in 0..(nG(params) - 1),
                              ibb \in bo.ib..(bo.ib + p1 - 1)}
           at(k) == {w \in W : BtHIndex(params, w[1], w[2]) = k}
       IN  bo' = [bo EXCEPT
                    !.p = p1,
                    !.BtH = [k \in 1..Len(bo.BtH) |->
                               IF at(k - 1) = {} THEN bo.BtH[k]
                               ELSE LET w == CHOOSE w \in at(k - 1) :
                                               \A v \in at(k - 1) :
                                                  v[1] < w[1] \/
                                                  (v[1] = w[1] /\ v[2] <= w[2])
                                    IN  [cnt |-> bo.BtH[k].cnt + Cardinality(at(k - 1)),
                                         band |-> w[2], n |-> w[1]]],
                    !.outside = @ \cup
                        {BtHIndex(params, w[1], w[2]) : w \in
                            {v \in W : BtHIndex(params, v[1], v[2])
                                          \notin 0..(Len(bo.BtH) - 1)}},
                    !.ib = bo.ib + params.alloc_p]
    /\ UNCHANGED <<fnames, subvars, iovars, rlog, hs, params, spc, disk, data_id,
                   opened, closed, abortedIn>>

\* The loop over ib has ended: evectmatrix_resize(&Hblock, Hblock.alloc_p, 0),
\* the frees and the return.
BoReturn ==
    /\ bo.pc = "loop"
    /\ ~(bo.ib < final_band(params))
    /\ bo' = [bo EXCEPT !.p = evectmatrix_resize(params.alloc_p),
                        !.pc = "returned"]
    /\ UNCHANGED <<fnames, subvars, iovars, rlog, hs, params, spc, disk, data_id,
                   opened, closed, abortedIn>>

\* A wider choice of index ranges and grids for BtH_overlap, one band.
WideIdx == {-2, -1, 0, 1, 2}
WideGrids == {1, 2, 3, 4, 5}

InitGrid ==
    /\ params \in [freq_num : {1}, band_min : {0}, n_bands : {1},
                    num_bands : {MaxBands}, alloc_p : {1},
                    iG1_min : WideIdx, iG1_max : WideIdx, iG2_min : WideIdx,
                    iG2_max : WideIdx, iG3_min : WideIdx, iG3_max : WideIdx,
                    nx : WideGrids, ny : WideGrids, nz : WideGrids]
    /\ spc = "none"
    /\ disk = NoDisk
    /\ data_id = H5FAIL
    /\ opened = <<>>
    /\ closed = <<>>
    /\ abortedIn = NoAbort
    /\ bo = [pc |-> "entry", ib |-> 0, p |-> params.alloc_p, list |-> <<>>,
             BtH |-> [k \in 1..(nG(params) * params.n_bands) |->
                        [cnt |-> 0, band |-> -1, n |-> -1]],
             outside |-> {}]
    /\ rlog = <<>>
    /\ hs = NoHandles

NextOverlap ==
    \/ BoEntry
    \/ BoLists
    \/ BoBlock
    \/ BoReturn

NextSdos ==
    \/ GsAlloc
    \/ GsOverlap
    \/ GsCreate
    \/ GsCreateDataset
    \/ GsWrite
    \/ GsCloseDataset
    \/ GsClose

(***************************************************************************)
(* The HDF5 handles of matrixio.c: the calls of each function that open or *)
(* close a handle and its CHECKs, in program order.                        *)
(***************************************************************************)
MaxHCalls == 3     \* dataset calls of one caller

H5Opens == {"H5Pcreate", "H5Fcreate", "H5Fopen", "H5Screate_simple",
            "H5Screate", "H5Dcreate", "H5Dopen", "H5Dget_space", "H5Tcopy",
            "H5Acreate"}
H5Closes == {"H5Pclose", "H5Fclose", "H5Sclose", "H5Dclose", "H5Tclose",
             "H5Aclose"}

\* The hid_t variables of the functions (those of add_string_attr carry the
\* prefix attr).
HVars == {"id", "access_props", "space_id", "data_id", "mem_space_id",
          "attr.type_id", "attr.space_id", "attr.attr_id"}

NoEnv == [v \in HVars |-> H5I_INVALID_HID]

\* One call: v = f(...) for an opening f, f(v) for a closing f, and
\* CHECK(ok, ...) for f = "CHECK".  ok: the library call succeeds.
H5(f, v, ok) == [f |-> f, v |-> v, ok |-> ok]

\* The effect of one call on the open handles and on the local variables.
\* A failed opening call returns a negative hid_t, closing a negative hid_t
\* is an error return that the code ignores, a failed CHECK ends the run.
H5Call(c, st) ==
    IF st.aborted THEN st
    ELSE IF c.f = "CHECK" THEN [st EXCEPT !.aborted = ~c.ok]
    ELSE IF c.f \in H5Opens THEN
        IF c.ok
        THEN LET h == [kind |-> c.f, n |-> st.next]
             IN  [st EXCEPT !.open = @ \cup {h}, !.opened = @ \cup {h},
                            !.env[c.v] = h, !.next = @ + 1]
        ELSE [st EXCEPT !.env[c.v] = H5I_INVALID_HID]
    ELSE [st EXCEPT !.open = @ \ {st.env[c.v]}]

RECURSIVE H5Run(_, _)
H5Run(cs, st) == IF cs = <<>> THEN st ELSE H5Run(Tail(cs), H5Call(Head(cs), st))

\* matrixio_create: access_props = H5Pcreate; id = H5Fcreate; CHECK(id >= 0);
\* H5Pclose(access_props); return id.
matrixio_create_calls(ok) ==
    << H5("H5Pcreate", "access_props", TRUE),
       H5("H5Fcreate", "id", ok),
       H5("CHECK", "id", ok),
       H5("H5Pclose", "access_props", TRUE) >>

\* matrixio_open: the same with H5Fopen.
matrixio_open_calls(ok) ==
    << H5("H5Pcreate", "access_props", TRUE),
       H5("H5Fopen", "id", ok),
       H5("CHECK", "id", ok),
       H5("H5Pclose", "access_props", TRUE) >>

\* add_string_attr(id, name, val) on worker p: nothing unless the master has
\* a non-empty val; type_id = H5Tcopy; space_id = H5Screate;
\* attr_id = H5Acreate(id, ...); CHECK(id >= 0); H5Aclose; H5Sclose; H5Tclose.
add_string_attr_calls(p, id_ok, val) ==
    IF ~IssuesAttr(p, val) THEN <<>>
    ELSE << H5("H5Tcopy", "attr.type_id", TRUE),
            H5("H5Screate", "attr.space_id", TRUE),
            H5("H5Acreate", "attr.attr_id", id_ok),
            H5("CHECK", "id", id_ok),
            H5("H5Aclose", "attr.attr_id", TRUE),
            H5("H5Sclose", "attr.space_id", TRUE),
            H5("H5Tclose", "attr.type_id", TRUE) >>

\* matrixio_create_dataset: CHECK(rank > 0); space_id = H5Screate_simple;
\* data_id = H5Dcreate(id, name, type_id, space_id); H5Sclose(space_id);
\* add_string_attr(data_id, "description", description); return data_id.
\* H5Dcreate fails on a failed dataspace and on a name already in use.
matrixio_create_dataset_calls(p, description, dims, fresh) ==
    LET space_ok == H5Screate_simple_ok(dims)
        data_ok  == space_ok /\ fresh
    IN  << H5("CHECK", "rank", Len(dims) > 0),
           H5("H5Screate_simple", "space_id", space_ok),
           H5("H5Dcreate", "data_id", data_ok),
           H5("H5Sclose", "space_id", TRUE) >>
        \o add_string_attr_calls(p, data_ok, description)

\* matrixio_write_real_data(data_id, ...): space_id = H5Dget_space(data_id);
\* CHECK(dims && maxdims) (rank is negative for a failed space_id: malloc
\* of a negative size fails); mem_space_id = H5Screate_simple(rank, count);
\* H5Sclose(mem_space_id); H5Sclose(space_id).  data_id stays open.
matrixio_write_real_data_calls(data_ok, local_dims, stride) ==
    << H5("H5Dget_space", "space_id", data_ok),
       H5("CHECK", "dims", data_ok),
       H5("H5Screate_simple", "mem_space_id",
          H5Screate_simple_ok(WriteMemDims(local_dims, stride))),
       H5("H5Sclose", "mem_space_id", TRUE),
       H5("H5Sclose", "space_id", TRUE) >>

\* matrixio_read_real_data without its H5Dclose(data_id).
matrixio_read_real_data_calls_NoDclose(rank, found, match, mem_dims) ==
    << H5("CHECK", "rank", rank > 0),
       H5("H5Dopen", "data_id", found),
       H5("H5Dget_space", "space_id", found),
       H5("CHECK", "rank", found /\ match),
       H5("H5Screate_simple", "mem_space_id", H5Screate_simple_ok(mem_dims)),
       H5("H5Sclose", "mem_space_id", TRUE),
       H5("H5Sclose", "space_id", TRUE) >>

\* matrixio_read_real_data(id, name, rank, dims, ...): CHECK(rank > 0);
\* data_id = H5Dopen(id, name); space_id = H5Dget_space(data_id);
\* CHECK(rank == ndims) and CHECK(dims_copy[i] == dims[i]) (match: the stored
\* shape is the declared one); mem_space_id = H5Screate_simple;
\* H5Sclose(mem_space_id); H5Sclose(space_id); H5Dclose(data_id).
matrixio_read_real_data_calls(rank, found, match, mem_dims) ==
    << H5("CHECK", "rank", rank > 0),
       H5("H5Dopen", "data_id", found),
       H5("H5Dget_space", "space_id", found),
       H5("CHECK", "rank", found /\ match),
       H5("H5Screate_simple", "mem_space_id", H5Screate_simple_ok(mem_dims)),
       H5("H5Sclose", "mem_space_id", TRUE),
       H5("H5Sclose", "space_id", TRUE),
       H5("H5Dclose", "data_id", TRUE) >>

\* matrixio_close_dataset(data_id): H5Dclose(data_id).
matrixio_close_dataset_calls == << H5("H5Dclose", "data_id", TRUE) >>

\* matrixio_close(id): H5Fclose(id).
matrixio_close_calls == << H5("H5Fclose", "id", TRUE) >>

\* One call of a matrixio function: its calls run from the handles open at
\* entry, with the handle arguments bound in env; retvar names the variable
\* it returns ("" for void).
HCall(op, cs, env, retvar) ==
    LET st == H5Run(cs, [open |-> hs.open, opened |-> {}, env |-> env,
                         next |-> hs.next, aborted |-> FALSE])
    IN  [op |-> op,
         status |-> IF st.aborted THEN "aborted" ELSE "returned",
         before |-> hs.open, after |-> st.open, opened |-> st.opened,
         args |-> {env[v] : v \in HVars} \ {H5I_INVALID_HID},
         returned |-> IF retvar = "" \/ st.aborted THEN {} ELSE {st.env[retvar]},
         next |-> st.next]

HDone(r, ph) ==
    [hs EXCEPT !.phase = IF r.status = "aborted" THEN "aborted" ELSE ph,
               !.open = r.after, !.next = r.next, !.last = r]

HDims == {<<>>, <<0>>, <<2>>}      \* dims arguments of create_dataset
HNames == {"d1", "d2"}             \* dataset names

HCreate ==
    /\ hs.phase = "none"
    /\ \E ok \in BOOLEAN :
        LET r == HCall("matrixio_create", matrixio_create_calls(ok), NoEnv, "id")
        IN  hs' = [HDone(r, "write") EXCEPT !.id = r.returned]
    /\ UNCHANGED <<fnames, subvars, iovars, rlog, sdosvars>>

HOpen ==
    /\ hs.phase = "none"
    /\ \E ok \in BOOLEAN :
        LET r == HCall("matrixio_open", matrixio_open_calls(ok), NoEnv, "id")
        IN  hs' = [HDone(r, "read") EXCEPT !.id = r.returned]
    /\ UNCHANGED <<fnames, subvars, iovars, rlog, sdosvars>>

\* The caller keeps the returned data_id, valid or not.
HCreateDataset ==
    /\ hs.phase = "write"
    /\ hs.ncalls < MaxHCalls
    /\ \E p \in 0..1 : \E description \in Descriptions : \E dims \in HDims :
       \E name \in HNames :
        LET r == HCall("matrixio_create_dataset",
                       matrixio_create_dataset_calls(p, description, dims,
                                                     name \notin hs.names),
                       NoEnv, "data_id")
        IN  hs' = [HDone(r, "write") EXCEPT
                      !.held = @ \cup r.returned,
                      !.names = @ \cup (IF r.returned \subseteq r.after
                                        THEN {name} ELSE {}),
                      !.ncalls = @ + 1]
    /\ UNCHANGED <<fnames, subvars, iovars, rlog, sdosvars>>

HWrite ==
    /\ hs.phase = "write"
    /\ hs.ncalls < MaxHCalls
    /\ \E d \in hs.held : \E stride \in Strides :
        LET r == HCall("matrixio_write_real_data",
                       matrixio_write_real_data_calls(d \in hs.open, <<2>>, stride),
                       [NoEnv EXCEPT !["data_id"] = d], "")
        IN  hs' = [HDone(r, "write") EXCEPT !.ncalls = @ + 1]
    /\ UNCHANGED <<fnames, subvars, iovars, rlog, sdosvars>>

HRead ==
    /\ hs.phase \in {"write", "read"}
    /\ hs.ncalls < MaxHCalls
    /\ \E rank \in 0..1 : \E found \in BOOLEAN : \E match \in BOOLEAN :
       \E stride \in ReadStrides :
        LET r == HCall("matrixio_read_real_data",
                       matrixio_read_real_data_calls(
                           rank, found, match, ReadMemDims(<<2>>, 1, stride)),
                       NoEnv, "")
        IN  hs' = [HDone(r, hs.phase) EXCEPT !.ncalls = @ + 1]
    /\ UNCHANGED <<fnames, subvars, iovars, rlog, sdosvars>>

HCloseDataset ==
    /\ hs.phase = "write"
    /\ \E d \in hs.held :
        LET r == HCall("matrixio_close_dataset", matrixio_close_dataset_calls,
                       [NoEnv EXCEPT !["data_id"] = d], "")
        IN  hs' = [HDone(r, "write") EXCEPT !.held = @ \ {d}]
    /\ UNCHANGED <<fnames, subvars, iovars, rlog, sdosvars>>

HClose ==
    /\ hs.phase \in {"write", "read"}
    /\ \E f \in hs.id :
        LET r == HCall("matrixio_close", matrixio_close_calls,
                       [NoEnv EXCEPT !["id"] = f], "")
        IN  hs' = HDone(r, "closed")
    /\ UNCHANGED <<fnames, subvars, iovars, rlog, sdosvars>>

NextHandles ==
    \/ HCreate
    \/ HOpen
    \/ HCreateDataset
    \/ HWrite
    \/ HRead
    \/ HCloseDataset
    \/ HClose

(***************************************************************************)
(* Specifications.                                                         *)
(***************************************************************************)
Init == IdleFname /\ IdleIO /\ InitSub /\ IdleAux

Spec == Init /\ [][NextSub]_vars

\* Every worker that can take a step eventually takes one; nothing obliges a
\* worker to stop.
SpecHang ==
    /\ Init
    /\ [][NextHang]_vars
    /\ \A p \in 0..(MaxProcs - 1) : WF_vars(Worker(p))

InitFnameOnly == InitFname /\ IdleSub /\ IdleIO /\ IdleAux

SpecFname == InitFnameOnly /\ [][Normalize]_vars

InitIOOnly == IdleFname /\ IdleSub /\ InitIO /\ IdleAux

SpecIO == InitIOOnly /\ [][NextIO]_vars

SpecCover == InitIOOnly /\ [][NextCover]_vars

InitNodeOnly == IdleFname /\ InitNode /\ IdleIO /\ IdleAux
SpecNode == InitNodeOnly /\ [][NextNode]_vars

InitRepeatOnly == IdleFname /\ InitRepeat /\ IdleIO /\ IdleAux
SpecRepeat == InitRepeatOnly /\ [][NextNode]_vars

InitReadersOnly == IdleFname /\ IdleSub /\ InitReaders /\ IdleSdos
SpecReaders == InitReadersOnly /\ [][NextReaders]_vars

InitOverlapOnly == IdleFname /\ IdleSub /\ IdleIO /\ InitOverlap
SpecOverlap == InitOverlapOnly /\ [][NextOverlap]_vars

InitGridOnly == IdleFname /\ IdleSub /\ IdleIO /\ InitGrid
SpecGrid == InitGridOnly /\ [][NextOverlap]_vars

InitSdosOnly == IdleFname /\ IdleSub /\ IdleIO /\ InitSdos
SpecSdos == InitSdosOnly /\ [][NextSdos]_vars

InitHandlesOnly == IdleFname /\ IdleSub /\ IdleIO /\ IdleAux
SpecHandles == InitHandlesOnly /\ [][NextHandles]_vars

(***************************************************************************)
(* Claims about add_fname_suffix.                                          *)
(***************************************************************************)
EndsWithSuffix(p) ==
    /\ Len(p) >= Len(FNAME_SUFFIX)
    /\ SubSeq(p, Len(p) - Len(FNAME_SUFFIX) + 1, Len(p)) = FNAME_SUFFIX

\* C6: normalisation is idempotent: for every path p,
\* add_fname_suffix(add_fname_suffix(p)) = add_fname_suffix(p).
C6_Idempotent == Len(fnames) >= 3 => fnames[3] = fnames[2]

\* C7: normalisation decides by the true tail: add_fname_suffix(p) is p when
\* the last three characters of p are ".h5", and p followed by ".h5"
\* otherwise, whatever occurs earlier in p.
C7_TrueTail ==
    \A k \in 1..(Len(fnames) - 1) :
        fnames[k + 1] = IF EndsWithSuffix(fnames[k]) THEN fnames[k]
                        ELSE fnames[k] \o FNAME_SUFFIX

(***************************************************************************)
(* Claims about the write and read paths.                                  *)
(***************************************************************************)
\* Multi-indices j with 0 <= j[i] < count[i].
MultiIdx(count) ==
    {j \in [1..Len(count) -> 0..(MaxElems + 1)] :
        \A i \in 1..Len(count) : j[i] < count[i]}

\* Row-major linear offset of idx in an array of the given shape.
RowMajor(idx, shape) ==
    LET RECURSIVE sum(_)
        sum(i) == IF i > Len(shape) THEN 0
                  ELSE idx[i] * Prod(SubSeq(shape, i + 1, Len(shape))) + sum(i + 1)
    IN  sum(1)

\* idx and shape with the last axis expanded by the stride s.
Expand(v, s) == [v EXCEPT ![Len(v)] = @ * s]

Plus(a, b) == [i \in 1..Len(a) |-> a[i] + b[i]]

FullRead(stride) ==
    /\ rd.op = "read"
    /\ rd.rank = Len(dset.dims)
    /\ rd.dims = dset.dims
    /\ rd.local_dim0 = dset.dims[1]
    /\ rd.local_dim0_start = 0
    /\ rd.stride = stride

\* C3: after stride-1 writes whose hyperslabs are pairwise disjoint and cover
\* the declared shape exactly, in any order, a stride-1 read of the full
\* extent returns, in row-major order, the value written to each position.
C3_RoundTrip ==
    (/\ allplain
     /\ \A k \in 1..Len(wcount) : wcount[k] = 1
     /\ FullRead(1))
    => /\ rd.status = "returned"
       /\ rd.transferred
       /\ rd.after = expect

C3_Witness ==
    /\ allplain
    /\ \A k \in 1..Len(wcount) : wcount[k] = 1
    /\ FullRead(1)
    /\ nwrites >= 2
    /\ Len(dset.dims) = 2
    /\ rd.after = expect

\* C4: after a stride-2 write of the whole dataset from the even slots of a
\* buffer, a stride-2 read of the whole dataset into a fresh buffer leaves in
\* every even slot the value the written buffer held there, and leaves every
\* other slot as it was.
C4_StridedSymmetry ==
    (lastfull = 2 /\ FullRead(2))
    => /\ rd.status = "returned"
       /\ rd.transferred
       /\ LET shape == Expand(dset.dims, 2)
              written == Ramp(Prod(shape))
              even == {RowMajor(Expand(j, 2), shape) : j \in MultiIdx(dset.dims)}
          IN  /\ Len(rd.after) = Prod(shape)
              /\ \A k \in 0..(Prod(shape) - 1) :
                    IF k \in even
                    THEN At(rd.after, k) = At(written, k)
                    ELSE At(rd.after, k) = At(rd.before, k)

C4_Witness ==
    /\ lastfull = 2
    /\ FullRead(2)
    /\ Prod(dset.dims) >= 3
    /\ rd.transferred

\* C5: a read whose declared rank differs from the stored rank, or whose
\* declared extent differs from the stored one on an axis i >= 1, ends in a
\* fatal validation error before H5Dread is issued, the caller's buffer
\* unmodified.
C5_ReadValidationFirst ==
    (/\ rd.op = "read"
     /\ \/ rd.rank # Len(dset.dims)
        \/ \E i \in 2..rd.rank : rd.dims[i] # dset.dims[i])
    => /\ rd.status = "fatal"
       /\ ~rd.issued
       /\ ~rd.transferred
       /\ rd.after = rd.before

C5_Witness ==
    /\ rd.op = "read"
    /\ rd.rank = Len(dset.dims)
    /\ rd.rank = 2
    /\ rd.dims[1] = dset.dims[1]
    /\ rd.dims[2] # dset.dims[2]
    /\ rd.status = "fatal"

\* C8: a write with local_start[i] + local_dims[i] > extent[i] on some axis,
\* or a read with local_dim0_start + local_dim0 > the stored axis-0 extent,
\* ends in a fatal validation error without any transfer, dataset and buffer
\* unchanged.
C8_OutOfRangeRejected ==
    /\ (/\ wr.op = "write"
        /\ \E i \in 1..Len(dset.dims) :
              wr.local_start[i] + wr.local_dims[i] > dset.dims[i])
       => /\ wr.status = "fatal"
          /\ ~wr.transferred
          /\ wr.after = wr.before
    /\ (/\ rd.op = "read"
        /\ rd.local_dim0_start + rd.local_dim0 > dset.dims[1])
       => /\ rd.status = "fatal"
          /\ ~rd.transferred
          /\ rd.after = rd.before

\* C9: for every stride <= 1 the memory dataspace of a write has the shape
\* local_dims and the elements transferred are buffer[0 .. prod(local_dims)-1]
\* in order.
C9_StrideAtMostOneContiguous ==
    (wr.op = "write" /\ wr.stride <= 1)
    => /\ wr.mem_dims = wr.local_dims
       /\ wr.msel = [n \in 1..Prod(wr.local_dims) |-> n - 1]

\* C10: a write with stride s >= 1 and a hyperslab inside the extents selects
\* prod(local_dims) elements on both sides; the element at local_start + j
\* receives the buffer element at the row-major offset of (j[0], ...,
\* j[r-1]*s) in the shape (local_dims[0], ..., local_dims[r-1]*s); no other
\* buffer element is read and no other dataset element changes.
C10_WriteIndexMapping ==
    (/\ wr.op = "write"
     /\ wr.stride >= 1
     /\ \A i \in 1..Len(dset.dims) :
           wr.local_start[i] + wr.local_dims[i] <= dset.dims[i])
    => LET s == wr.stride
           shape == Expand(wr.local_dims, s)
           J == MultiIdx(wr.local_dims)
           src(j) == RowMajor(Expand(j, s), shape)
           dst(j) == RowMajor(Plus(wr.local_start, j), dset.dims)
       IN  /\ wr.status = "returned"
           /\ wr.transferred
           /\ Len(wr.fsel) = Prod(wr.local_dims)
           /\ Len(wr.msel) = Prod(wr.local_dims)
           /\ \A j \in J : At(wr.after, dst(j)) = At(wr.buf, src(j))
           /\ {wr.msel[n] : n \in 1..Len(wr.msel)} = {src(j) : j \in J}
           /\ \A k \in 0..(Len(wr.after) - 1) :
                 k \notin {dst(j) : j \in J} => At(wr.after, k) = At(wr.before, k)
           /\ dset.data = wr.after

C10_Witness ==
    /\ wr.op = "write"
    /\ wr.stride = 2
    /\ Len(dset.dims) = 2
    /\ wr.local_dims = <<2, 2>>
    /\ wr.transferred

\* The read call declared the stored rank, and the stored extents on the
\* axes from..rank-1.
DeclaresStored(from) ==
    /\ rd.op = "read"
    /\ rd.rank > 0
    /\ rd.rank = Len(dset.dims)
    /\ \A i \in (from + 1)..rd.rank : rd.dims[i] = dset.dims[i]

\* C17, as claimed: read compares the declared dims with the stored extents
\* on the axes 1..rank-1 only, so a call that matches in rank and on every
\* axis >= 1 is not rejected, whatever it declares for dims[0].
C17_Axis0Exempt == DeclaresStored(1) => rd.status # "fatal"

\* C17, amended: read compares the declared dims with the stored extents on
\* every axis 0..rank-1; a call of the stored rank is rejected (with the
\* size message, before any transfer) exactly if some axis, axis 0 included,
\* differs; local_dim0 and local_dim0_start are compared with nothing.
C17_AllAxesValidated ==
    (rd.op = "read" /\ rd.rank > 0 /\ rd.rank = Len(dset.dims)) =>
        /\ DeclaresStored(0) => rd.status = "returned"
        /\ ~DeclaresStored(0) =>
              /\ rd.status = "fatal"
              /\ rd.message = "size mismatch"
              /\ ~rd.issued
              /\ rd.after = rd.before

C17_Witness ==
    /\ DeclaresStored(1)
    /\ rd.rank = 2
    /\ rd.dims[1] # dset.dims[1]
    /\ rd.status = "fatal"

\* The rows of axis 0 a read call asks for.
Rows(r) == r.local_dim0_start..(r.local_dim0_start + r.local_dim0 - 1)

\* The mapping of one read call that transferred data.
ReadMapping(r) ==
    LET s == r.stride
        count == [r.dims EXCEPT ![1] = r.local_dim0]
        shape == Expand(count, s)
        first == [i \in 1..r.rank |-> IF i = 1 THEN r.local_dim0_start ELSE 0]
        J == MultiIdx(count)
        src(j) == RowMajor(Plus(first, j), dset.dims)
        dst(j) == RowMajor(Expand(j, s), shape)
    IN  /\ Len(r.after) = Prod(shape)
        /\ Len(r.fsel) = Prod(count)
        /\ {r.fsel[n] : n \in 1..Len(r.fsel)} = {src(j) : j \in J}
        /\ \A j \in J : At(r.after, dst(j)) = At(dset.data, src(j))
        /\ \A k \in 0..(Len(r.after) - 1) :
              k \notin {dst(j) : j \in J} => At(r.after, k) = At(r.before, k)

\* The read calls of the run ask for pairwise disjoint row ranges that
\* together cover axis 0.
RowsPartitioned ==
    /\ \A i, k \in 1..Len(rlog) : i # k => Rows(rlog[i]) \cap Rows(rlog[k]) = {}
    /\ UNION {Rows(rlog[i]) : i \in 1..Len(rlog)} = 0..(dset.dims[1] - 1)

\* C18: a successful read with stride s >= 1, local_dim0 = m and
\* local_dim0_start = a transfers exactly the stored elements at
\* (a + j0, j1, ..., j[r-1]), each once, to the row-major offset of
\* (j0, ..., j[r-1]*s) in a buffer of shape (m, dims[1], ..., dims[r-1]*s)
\* (for rank 1: (m*s)) and leaves the other buffer slots alone; workers that
\* read disjoint row ranges covering axis 0 obtain every stored element
\* exactly once.
C18_ReadIndexMapping ==
    /\ \A i \in 1..Len(rlog) :
          (rlog[i].status = "returned" /\ rlog[i].transferred) => ReadMapping(rlog[i])
    /\ \A i \in 1..Len(rlog) :
          Rows(rlog[i]) \subseteq 0..(dset.dims[1] - 1) =>
             rlog[i].status = "returned" /\ rlog[i].transferred
    /\ RowsPartitioned =>
          \A k \in 0..(Len(dset.data) - 1) :
             LET got == {ni \in (1..Len(rlog)) \X (1..Len(dset.data)) :
                           /\ ni[2] <= Len(rlog[ni[1]].fsel)
                           /\ rlog[ni[1]].fsel[ni[2]] = k}
             IN  /\ Cardinality(got) = 1
                 /\ \A ni \in got :
                       At(rlog[ni[1]].after, rlog[ni[1]].msel[ni[2]]) = At(dset.data, k)

C18_Witness ==
    /\ dset.dims = <<2, 2>>
    /\ Len(rlog) = 2
    /\ RowsPartitioned
    /\ rlog[1].local_dim0_start = 1 /\ rlog[1].stride = 2
    /\ rlog[2].local_dim0_start = 0 /\ rlog[2].stride = 1
    /\ rlog[1].transferred /\ rlog[2].transferred

(***************************************************************************)
(* Claims about get_sdos.                                                  *)
(***************************************************************************)
\* The dataset handles that were returned and not closed.
OpenDatasets ==
    {opened[i] : i \in 1..Len(opened)} \ {closed[j] : j \in 1..Len(closed)}

\* C12: in get_sdos every dataset handle matrixio_create_dataset returned
\* ("sdos", "freqspan", "iGspan", "kpoint") is closed exactly once, and when
\* matrixio_close is called on the container no dataset handle is still open.
C12_HandlePairing ==
    spc \in {"close", "done"} =>
        /\ \A i \in 1..Len(opened) :
              Cardinality({j \in 1..Len(closed) : closed[j] = opened[i]}) = 1
        /\ OpenDatasets = {}

\* C14: after get_sdos has run, the container holds four rank-1 datasets
\* with the extents sdos = freq_num * nG, freqspan = 3, iGspan = 6 and
\* kpoint = 3, and each write transferred exactly that many elements.
C14_SchemaShapes ==
    spc = "done" =>
        LET want == <<[name |-> "sdos", n |-> params.freq_num * nG(params)],
                      [name |-> "freqspan", n |-> 3],
                      [name |-> "iGspan", n |-> 6],
                      [name |-> "kpoint", n |-> 3]>>
        IN  /\ Len(disk.datasets) = 4
            /\ \A i \in 1..4 :
                  /\ disk.datasets[i].name = want[i].name
                  /\ disk.datasets[i].dims = <<want[i].n>>
                  /\ disk.datasets[i].transferred = want[i].n

\* The values a dataset holds, given the buffer that was passed to its
\* write (an element holding k was written from slot k - 1 of the buffer;
\* 0 is the fill value).
StoredFrom(data, buf) ==
    [k \in 1..Len(data) |-> IF data[k] \in 1..Len(buf) THEN buf[data[k]] ELSE 0]

\* C15: the iGspan dataset holds (iG1_min, iG1_max, iG2_min, iG2_max,
\* iG3_min, iG3_max), also when the axis-3 bounds differ from axis 2.
C15_iGspanContent ==
    spc = "done" =>
        StoredFrom(disk.datasets[3].data, iGspan(params)) =
            <<params.iG1_min, params.iG1_max, params.iG2_min, params.iG2_max,
              params.iG3_min, params.iG3_max>>

\* The requested index range is non-monotonic or outside the grid bounds.
BadRange(a) ==
    \/ a.iG1_min > a.iG1_max \/ a.iG2_min > a.iG2_max \/ a.iG3_min > a.iG3_max
    \/ ~InBounds(a.iG1_min, a.iG1_max, a.nx)
    \/ ~InBounds(a.iG2_min, a.iG2_max, a.ny)
    \/ ~InBounds(a.iG3_min, a.iG3_max, a.nz)

\* C19: when get_sdos is called with iGk_min > iGk_max on some axis, or with
\* a range outside the grid bounds, the run aborts in BtH_overlap before
\* matrixio_create is called: no container is created or truncated and no
\* dataset is written.
C19_RejectedInOverlap ==
    BadRange(params) =>
        /\ spc \in {"alloc", "overlap", "aborted"}
        /\ spc = "aborted" => abortedIn.fn = "BtH_overlap"
        /\ ~disk.exists
        /\ opened = <<>>
        /\ nwrites = 0

(***************************************************************************)
(* Claims about BtH_overlap.                                               *)
(***************************************************************************)
\* The n-th requested G-vector when the axis-3 index runs fastest.
GVector(a, n) ==
    <<a.iG1_min + (n \div (nG2(a) * nG3(a))),
      a.iG2_min + ((n \div nG3(a)) % nG2(a)),
      a.iG3_min + (n % nG3(a))>>

\* C20: for every band_min, n_bands >= 1 and alloc_p >= 1, dividing n_bands
\* or not, the blocked loop of BtH_overlap assigns every element
\* BtH[n*n_bands + b] (0 <= n < nG, 0 <= b < n_bands) exactly once, from
\* G-vector n and band band_min + b, never writes outside [0, nG*n_bands),
\* enumerates n with the axis-3 index fastest, and on return has restored
\* the work block to alloc_p.
C20_BlockedLoopCoverage ==
    /\ bo.pc \in {"loop", "returned"} =>
          /\ bo.outside = {}
          /\ \A k \in 1..Len(bo.BtH) : bo.BtH[k].cnt <= 1
          /\ Len(bo.list) = nG(params)
          /\ \A n \in 0..(nG(params) - 1) : bo.list[n + 1].g = GVector(params, n)
    /\ bo.pc = "returned" =>
          /\ bo.p = params.alloc_p
          /\ Len(bo.BtH) = nG(params) * params.n_bands
          /\ \A n \in 0..(nG(params) - 1) : \A b \in 0..(params.n_bands - 1) :
                LET e == bo.BtH[n * params.n_bands + b + 1]
                IN  e.cnt = 1 /\ e.n = n /\ e.band = params.band_min + b

C20_Witness ==
    /\ bo.pc = "returned"
    /\ params.n_bands = 3
    /\ params.alloc_p = 2
    /\ params.band_min = 0
    /\ nG3(params) = 2
    /\ nG(params) >= 4

\* C21: when the index range passed the bounds checks, every list entry
\* holds, per axis, the position -i for i <= 0 and n - i for i > 0 of its
\* G-vector index i, that position lies in [0, n), so the grid point used to
\* address the field arrays lies in [0, nx*ny*nz), and distinct requested
\* G-vectors have distinct positions and distinct grid points.
C21_IndexMapping ==
    bo.pc \in {"loop", "returned"} =>
        LET L == bo.list
            a == params
            pos(i, n) == IF i <= 0 THEN -i ELSE n - i
        IN  /\ Len(L) = nG(a)
            /\ \A k \in 1..Len(L) :
                  /\ L[k].ix = pos(L[k].g[1], a.nx)
                  /\ L[k].iy = pos(L[k].g[2], a.ny)
                  /\ L[k].iz = pos(L[k].g[3], a.nz)
                  /\ L[k].ix \in 0..(a.nx - 1)
                  /\ L[k].iy \in 0..(a.ny - 1)
                  /\ L[k].iz \in 0..(a.nz - 1)
                  /\ FieldPos(a, L[k]) \in 0..(a.nx * a.ny * a.nz - 1)
            /\ \A k, m \in 1..Len(L) :
                  k # m =>
                     /\ L[k].g # L[m].g
                     /\ <<L[k].ix, L[k].iy, L[k].iz>> # <<L[m].ix, L[m].iy, L[m].iz>>
                     /\ FieldPos(a, L[k]) # FieldPos(a, L[m])

C21_Witness ==
    /\ bo.pc = "returned"
    /\ params.nx = 4 /\ params.iG1_min = -1 /\ params.iG1_max = 2
    /\ params.ny = 5 /\ params.iG2_min = -1 /\ params.iG2_max = 1
    /\ params.nz = 1 /\ params.iG3_min = 0 /\ params.iG3_max = 0

(***************************************************************************)
(* Claims about the HDF5 handles of matrixio.c.                            *)
(***************************************************************************)
HandleOps == {"matrixio_create", "matrixio_open", "matrixio_create_dataset",
              "matrixio_write_real_data", "matrixio_read_real_data"}

\* C22: after every normally returning call of matrixio_create,
\* matrixio_open, matrixio_create_dataset, matrixio_write_real_data and
\* matrixio_read_real_data, the open handles are those open before the call
\* plus only the handle returned to the caller: every other handle the call
\* opened (access property list, file and memory dataspace, attribute, type
\* and space handles, the dataset handle of read) is closed again, and write
\* leaves the caller's dataset handle open.
C22_TransientHandlesClosed ==
    (hs.last.op \in HandleOps /\ hs.last.status = "returned") =>
        LET c == hs.last
            result == c.returned \ {H5I_INVALID_HID}
        IN  /\ hs.open = c.after
            /\ c.after = c.before \cup result
            /\ (c.opened \ result) \cap c.after = {}
            /\ c.op \in {"matrixio_write_real_data", "matrixio_read_real_data"}
                  => result = {}
            /\ c.op = "matrixio_write_real_data"
                  => c.args # {} /\ c.args \subseteq c.after

C22_Witness ==
    /\ hs.last.op = "matrixio_read_real_data"
    /\ hs.last.status = "returned"
    /\ Cardinality(hs.last.opened) = 3
    /\ Cardinality(hs.last.before) = 2
    /\ \E h \in hs.last.before : h.kind = "H5Dcreate"
====
